---- MODULE Spec2Model ----
(***************************************************************************)
(* Model of subrou_rs: the envelope follower and gain compositor of        *)
(* src/src/envelope.rs and the plugin's process callback of src/src/lib.rs.*)
(*                                                                         *)
(* Numbers.  Every sample, level and gain of the program is an f32.  A     *)
(* finite f32 value x is represented by the integer x * 2^28; the three    *)
(* non-finite values are the integers PosInf, NegInf and NaN.  Arithmetic  *)
(* is IEEE-754 binary32 arithmetic: the exact result rounded to 24         *)
(* significant bits, ties to even.  The inputs the specifications draw are *)
(* multiples of 2^-24 below 4 with at most MaxLen + 1 halvings applied, so *)
(* every exact result is a multiple of 2^-28 and the rounding of the model *)
(* is the rounding of the f32 unit.                                        *)
(***************************************************************************)
EXTENDS Integers, Sequences, FiniteSets, TLC

VARIABLES
    samples,        \* envelope_follower / apply_gain_curve: the `samples` argument
    attack_ms,      \* envelope_follower: argument
    release_ms,     \* envelope_follower: argument
    rate_arg,       \* envelope_follower: the `sample_rate` argument
    curve,          \* envelope_follower: returned Vec; apply_gain_curve: `curve` argument
    prev_last,      \* <<>> or <<final value of the curve the previous call returned>>
    pc,             \* position of the caller of the pure functions
    gain_in,        \* apply_gain_curve: `samples` as they were at the call
    sample_rate,    \* SubrouRs.sample_rate
    pitch,          \* SubrouRsParams.pitch
    post_gain,      \* SubrouRsParams.post_gain
    out_channel,    \* SubrouRsParams.out_channel
    buffer,         \* the host's Buffer: one sequence of samples per channel
    in_buffer,      \* the buffer as it was when process was entered
    saw,            \* process: the local `saw`
    p_mono,         \* process: the local `mono`
    p_curve,        \* process: the local `curve`
    status          \* what the last process call returned

vars == <<samples, attack_ms, release_ms, rate_arg, curve, prev_last, pc, gain_in,
          sample_rate, pitch, post_gain, out_channel, buffer, in_buffer, saw,
          p_mono, p_curve, status>>

procVars == <<sample_rate, pitch, post_gain, out_channel, buffer, in_buffer, saw,
              p_mono, p_curve, status>>

----------------------------------------------------------------------------
(* f32 *)

\* 1.0, 0.5 and the spacing of the f32 values in [1, 2) (2^-23)
One == 2^28
Half == 2^27
Ulp1 == 2^5

\* the number of significant bits of an f32
SigBits == 24

PosInf == 2^30
NegInf == -(2^30)
NaN == 2^30 + 1

IsNaN(x) == x = NaN
IsFinite(x) == x > NegInf /\ x < PosInf

\* the spacing of the f32 values around the magnitude a >= 0
MantissaEnd == 2^SigBits
RECURSIVE UlpOf(_)
UlpOf(a) == IF a < MantissaEnd THEN 1 ELSE 2 * UlpOf(a \div 2)

\* the magnitude q + r/d (0 <= r < d) rounded to nearest, ties to even
RoundMag(q, r, d) ==
    LET u == UlpOf(q)
        hi == q \div u
        lo == q % u
        up == IF u = 1
              THEN 2 * r > d \/ (2 * r = d /\ hi % 2 = 1)
              ELSE \/ 2 * lo > u
                   \/ 2 * lo = u /\ (r > 0 \/ hi % 2 = 1)
    IN  IF up THEN (hi + 1) * u ELSE hi * u

Round(n) == IF n < 0 THEN -RoundMag(-n, 0, 1) ELSE RoundMag(n, 0, 1)

FNeg(a) == IF IsNaN(a) THEN NaN ELSE -a

FAbs(a) == IF IsNaN(a) THEN NaN ELSE IF a < 0 THEN -a ELSE a

\* a > b and a >= b on f32: false when either side is NaN
FGt(a, b) == ~IsNaN(a) /\ ~IsNaN(b) /\ a > b
FGe(a, b) == ~IsNaN(a) /\ ~IsNaN(b) /\ a >= b

FAdd(a, b) ==
    IF IsNaN(a) \/ IsNaN(b) THEN NaN
    ELSE IF ~IsFinite(a) THEN (IF ~IsFinite(b) /\ a # b THEN NaN ELSE a)
    ELSE IF ~IsFinite(b) THEN b
    ELSE Round(a + b)

FSub(a, b) == FAdd(a, FNeg(b))

\* the product of two finite magnitudes below 4: the exact 60-bit product from
\* 15-bit limbs (Limb * Limb = 4 * One, Limb * LimbLow = One), divided by 2^28
\* and rounded
Limb == 2^15
LimbLow == 2^13
MulMag(a, b) ==
    LET a1 == a \div Limb
        a0 == a % Limb
        b1 == b \div Limb
        b0 == b % Limb
        cross == a1 * b0 + a0 * b1
        low == (cross % LimbLow) * Limb + a0 * b0
    IN  RoundMag(4 * a1 * b1 + cross \div LimbLow + low \div One, low % One, One)

FMul(a, b) ==
    IF IsNaN(a) \/ IsNaN(b) THEN NaN
    ELSE IF ~IsFinite(a) \/ ~IsFinite(b)
         THEN (IF a = 0 \/ b = 0 THEN NaN
               ELSE IF (a > 0) = (b > 0) THEN PosInf ELSE NegInf)
    ELSE IF (a < 0) = (b < 0) THEN MulMag(FAbs(a), FAbs(b))
    ELSE -MulMag(FAbs(a), FAbs(b))

\* a / n for a finite a and a positive channel count n
FDivCount(a, n) ==
    IF a < 0 THEN -RoundMag((-a) \div n, (-a) % n, n)
    ELSE RoundMag(a \div n, a % n, n)

----------------------------------------------------------------------------
(* src/src/envelope.rs *)

\* bound of the model: the longest sequence of samples handed to a call
MaxLen == 2

\* 1000 * attack_samples (resp. release_samples): t_ms * 0.001 * sample_rate
SamplesForTime(t_ms, rate) == t_ms * rate

\* (-2.2_f32 / n).exp() for n = n1000 / 1000.  exp is not computable here: below
\* n = 0.0211 the argument is under -104 and the f32 result is exactly 0.0;
\* for every other n the model takes 0.5, the value at n = 3.174.
ExpNeg(n1000) == IF n1000 <= 21 THEN 0 ELSE Half

attack_coeff_sign(t_ms, rate) ==
    IF t_ms <= 0 THEN One
    ELSE FAdd(One, ExpNeg(SamplesForTime(t_ms, rate)))

attack_coeff(t_ms, rate) ==
    IF t_ms <= 0 THEN One
    ELSE FSub(One, ExpNeg(SamplesForTime(t_ms, rate)))

release_coeff(t_ms, rate) ==
    IF t_ms <= 0 THEN One
    ELSE FSub(One, ExpNeg(SamplesForTime(t_ms, rate)))

\* let mut env = 0.0_f32
EnvStart == 0

TargetSigned(s) == s

\* let target = s.abs()
Target(s) == FAbs(s)

EnvStepSwapped(env, s, ac, rc) ==
    IF FGt(Target(s), env)
    THEN FAdd(env, FMul(rc, FSub(Target(s), env)))
    ELSE FAdd(env, FMul(ac, FSub(Target(s), env)))

\* one turn of the loop: the new value of env
EnvStep(env, s, ac, rc) ==
    IF FGt(Target(s), env)
    THEN FAdd(env, FMul(ac, FSub(Target(s), env)))
    ELSE FAdd(env, FMul(rc, FSub(Target(s), env)))

RECURSIVE EnvLoop(_, _, _, _)
EnvLoop(ss, env, ac, rc) ==
    IF ss = <<>> THEN <<>>
    ELSE LET e == EnvStep(env, Head(ss), ac, rc)
         IN  <<e>> \o EnvLoop(Tail(ss), e, ac, rc)

envelope_follower(ss, a_ms, r_ms, rate) ==
    EnvLoop(ss, EnvStart, attack_coeff(a_ms, rate), release_coeff(r_ms, rate))

apply_gain_curve_zip(ss, cv) ==
    [ok |-> TRUE,
     samples |-> [i \in 1..Len(ss) |->
                     IF i <= Len(cv) THEN FMul(ss[i], cv[i]) ELSE ss[i]]]

apply_gain_curve_add(ss, cv) ==
    IF Len(ss) # Len(cv) THEN [ok |-> FALSE, samples |-> ss]
    ELSE [ok |-> TRUE, samples |-> [i \in 1..Len(ss) |-> FAdd(ss[i], cv[i])]]

\* the call panics (ok = FALSE, samples untouched) or returns with samples updated
apply_gain_curve(ss, cv) ==
    IF Len(ss) # Len(cv) THEN [ok |-> FALSE, samples |-> ss]
    ELSE [ok |-> TRUE, samples |-> [i \in 1..Len(ss) |-> FMul(ss[i], cv[i])]]

----------------------------------------------------------------------------
(* The inputs *)

\* sample values: 0, 1.5 * 2^-23, -0.5, 1 + 3 * 2^-23, NaN, +infinity
SampleVals == {0, 3 * (Ulp1 \div 2), -Half, One + 3 * Ulp1, NaN, PosInf}
\* time constants in ms and sample rates in Hz
TimeVals == {-1, 0, 10}
RateVals == {1, 44100}

SeqsUpTo(S, n) == UNION {[1..k -> S] : k \in 0..n}

AllFinite(ss) == \A i \in 1..Len(ss) : IsFinite(ss[i])

\* the plugin as constructed, for the specifications that leave it alone
ProcIdle ==
    /\ sample_rate = 44100 /\ pitch = 440 /\ post_gain = One /\ out_channel = 0
    /\ buffer = <<>> /\ in_buffer = <<>> /\ saw = <<>> /\ p_mono = <<>>
    /\ p_curve = <<>> /\ status = "none"

----------------------------------------------------------------------------
(* envelope_follower called block after block by one caller *)

InitEnv ==
    /\ samples = <<>>
    /\ attack_ms \in TimeVals
    /\ release_ms \in TimeVals
    /\ rate_arg \in RateVals
    /\ curve = <<>>
    /\ prev_last = <<>>
    /\ pc = "idle"
    /\ gain_in = <<>>
    /\ ProcIdle

\* the caller has the next block of samples
TakeBlock ==
    /\ pc = "idle"
    /\ samples' \in SeqsUpTo(SampleVals, MaxLen)
    /\ pc' = "call"
    /\ UNCHANGED <<attack_ms, release_ms, rate_arg, curve, prev_last, gain_in>>
    /\ UNCHANGED procVars

CallEnvelopeFollower ==
    /\ pc = "call"
    /\ curve' = envelope_follower(samples, attack_ms, release_ms, rate_arg)
    /\ pc' = "returned"
    /\ UNCHANGED <<samples, attack_ms, release_ms, rate_arg, prev_last, gain_in>>
    /\ UNCHANGED procVars

\* the caller is done with the curve; nothing is reset before the next block
DropCurve ==
    /\ pc = "returned"
    /\ prev_last' = IF curve = <<>> THEN prev_last ELSE <<curve[Len(curve)]>>
    /\ samples' = <<>>
    /\ curve' = <<>>
    /\ pc' = "idle"
    /\ UNCHANGED <<attack_ms, release_ms, rate_arg, gain_in>>
    /\ UNCHANGED procVars

NextEnv == TakeBlock \/ CallEnvelopeFollower \/ DropCurve

SpecEnv == InitEnv /\ [][NextEnv]_vars

----------------------------------------------------------------------------
(* apply_gain_curve called on one pair of buffers after another *)

\* signal values 0, 1, -0.5, 1 + 3 * 2^-23 and gains 0, 0.5, 0.75, 1
GainVals == {0, One, -Half, One + 3 * Ulp1}
CurveVals == {0, Half, 3 * (Half \div 2), One}

EnvIdle == attack_ms = 0 /\ release_ms = 0 /\ rate_arg = 44100 /\ prev_last = <<>>

InitGain ==
    /\ samples = <<>>
    /\ curve = <<>>
    /\ gain_in = <<>>
    /\ pc = "idle"
    /\ EnvIdle
    /\ ProcIdle

\* the caller has a signal and a gain curve
TakeBuffers ==
    /\ pc = "idle"
    /\ samples' \in SeqsUpTo(GainVals, MaxLen)
    /\ curve' \in SeqsUpTo(CurveVals, MaxLen)
    /\ gain_in' = samples'
    /\ pc' = "call"
    /\ UNCHANGED <<attack_ms, release_ms, rate_arg, prev_last>>
    /\ UNCHANGED procVars

ApplyGainCurve ==
    /\ pc = "call"
    /\ gain_in' = samples
    /\ samples' = apply_gain_curve(samples, curve).samples
    /\ pc' = IF apply_gain_curve(samples, curve).ok THEN "returned" ELSE "panicked"
    /\ UNCHANGED <<attack_ms, release_ms, rate_arg, curve, prev_last>>
    /\ UNCHANGED procVars

\* after a return the caller is done with the buffers; a panic unwinds it
DropBuffers ==
    /\ pc = "returned"
    /\ samples' = <<>>
    /\ curve' = <<>>
    /\ gain_in' = <<>>
    /\ pc' = "idle"
    /\ UNCHANGED <<attack_ms, release_ms, rate_arg, prev_last>>
    /\ UNCHANGED procVars

NextGain == TakeBuffers \/ ApplyGainCurve \/ DropBuffers

SpecGain == InitGain /\ [][NextGain]_vars

----------------------------------------------------------------------------
(* src/src/lib.rs and src/src/wave.rs *)

\* AUDIO_IO_LAYOUTS: the one layout has two main input and output channels
NumChannels == 2

\* the values saw_wave(phase, 3) can return for the phase of sample index i:
\* at i = 0 the phase is 0, every sin is 0 and the result is exactly 0; the sin
\* of the other phases is not computable here and the model takes any of SawVals
SawVals == {0, Half, -One}
saw_wave(i) == IF i = 0 THEN {0} ELSE SawVals

\* the values saw_wave returns along a block of n samples
WaveSeqs(n) == {w \in [1..n -> SawVals] : \A i \in 1..n : w[i] \in saw_wave(i - 1)}

\* buffer.samples()
NumSamples(buf) == IF buf = <<>> THEN 0 ELSE Len(buf[1])

\* mono[i] after the summing loop over the first c channels
RECURSIVE SumChannels(_, _, _)
SumChannels(buf, c, i) ==
    IF c = 0 THEN 0 ELSE FAdd(SumChannels(buf, c - 1, i), buf[c][i])

\* slices.len().max(1)
ChannelCount(buf) == IF Len(buf) > 1 THEN Len(buf) ELSE 1

\* mono: the sum of the channels divided by num_channels
Mono(buf) ==
    [i \in 1..NumSamples(buf) |->
        FDivCount(SumChannels(buf, Len(buf), i), ChannelCount(buf))]

SawSignalNoGain(cv, wave, post) ==
    [i \in 1..Len(cv) |-> FMul(wave[i], post)]

\* saw: saw_wave(phase, 3) * gain * post for every gain of the curve
SawSignal(cv, wave, post) ==
    [i \in 1..Len(cv) |-> FMul(FMul(wave[i], cv[i]), post)]

RouteAddOne(buf, sg, out_ch) ==
    IF out_ch = 0
    THEN [c \in 1..Len(buf) |->
            IF c = 1 THEN [i \in 1..Len(buf[c]) |-> FAdd(buf[c][i], sg[i])]
            ELSE buf[c]]
    ELSE IF out_ch - 1 < Len(buf) THEN [buf EXCEPT ![out_ch] = sg]
    ELSE buf

RouteMix(buf, sg, out_ch) ==
    IF out_ch = 0
    THEN [c \in 1..Len(buf) |-> [i \in 1..Len(buf[c]) |-> FAdd(buf[c][i], sg[i])]]
    ELSE IF out_ch - 1 < Len(buf)
    THEN [buf EXCEPT ![out_ch] = [i \in 1..Len(sg) |-> FAdd(buf[out_ch][i], sg[i])]]
    ELSE buf

RouteClamp(buf, sg, out_ch) ==
    IF out_ch = 0
    THEN [c \in 1..Len(buf) |-> [i \in 1..Len(buf[c]) |-> FAdd(buf[c][i], sg[i])]]
    ELSE IF out_ch - 1 < Len(buf) THEN [buf EXCEPT ![out_ch] = sg]
    ELSE [buf EXCEPT ![Len(buf)] = sg]

\* the routing of saw to the channels: added to all of them for out_ch = 0,
\* written over channel out_ch when there is one, dropped otherwise
Route(buf, sg, out_ch) ==
    IF out_ch = 0
    THEN [c \in 1..Len(buf) |-> [i \in 1..Len(buf[c]) |-> FAdd(buf[c][i], sg[i])]]
    ELSE IF out_ch - 1 < Len(buf) THEN [buf EXCEPT ![out_ch] = sg]
    ELSE buf

----------------------------------------------------------------------------
(* The plugin driven by its host, block after block *)

\* bounds: the longest block and the largest out_channel the host sets
MaxBlock == 2
MaxOutChannel == 3

\* block samples 0, 1, -0.5; post gains 0.5, 1; the pitch in Hz (the values of
\* saw_wave are drawn for any pitch)
BufVals == {0, One, -Half}
PostVals == {Half, One}
PitchVals == {440}

Blocks == UNION {[1..NumChannels -> [1..n -> BufVals]] : n \in 0..MaxBlock}

InitProc ==
    /\ sample_rate = 44100
    /\ pitch = 440
    /\ post_gain = One
    /\ out_channel = 0
    /\ buffer = <<>>
    /\ in_buffer = <<>> /\ saw = <<>> /\ p_mono = <<>> /\ p_curve = <<>>
    /\ status = "none"
    /\ pc = "idle"
    /\ samples = <<>> /\ curve = <<>> /\ gain_in = <<>>
    /\ EnvIdle

pureVars == <<samples, attack_ms, release_ms, rate_arg, curve, prev_last, gain_in>>

\* self.sample_rate = buffer_config.sample_rate as f32
Initialize ==
    /\ pc = "idle"
    /\ sample_rate' \in RateVals
    /\ UNCHANGED <<pitch, post_gain, out_channel, buffer, in_buffer, saw, p_mono,
                   p_curve, status, pc>>
    /\ UNCHANGED pureVars

\* fn reset(&mut self) {}
Reset ==
    /\ pc = "idle"
    /\ UNCHANGED vars

\* the parameter system refreshes the three controls between blocks
SetParams ==
    /\ pc = "idle"
    /\ pitch' \in PitchVals
    /\ post_gain' \in PostVals
    /\ out_channel' \in 0..MaxOutChannel
    /\ UNCHANGED <<sample_rate, buffer, in_buffer, saw, p_mono, p_curve, status, pc>>
    /\ UNCHANGED pureVars

\* the host hands over the next block
HostGivesBlock ==
    /\ pc = "idle"
    /\ buffer' \in Blocks
    /\ pc' = "ready"
    /\ UNCHANGED <<sample_rate, pitch, post_gain, out_channel, in_buffer, saw,
                   p_mono, p_curve, status>>
    /\ UNCHANGED pureVars

\* SubrouRs::process, for the values `wave` that saw_wave returns along the block
Process ==
    /\ pc = "ready"
    /\ IF NumSamples(buffer) = 0
       THEN /\ p_mono' = <<>> /\ p_curve' = <<>> /\ saw' = <<>>
            /\ buffer' = buffer
       ELSE \E wave \in WaveSeqs(NumSamples(buffer)) :
            /\ p_mono' = Mono(buffer)
            /\ p_curve' = envelope_follower(p_mono', 10, 10, sample_rate)
            /\ saw' = SawSignal(p_curve', wave, post_gain)
            /\ buffer' = Route(buffer, saw', out_channel)
    /\ in_buffer' = buffer
    /\ status' = "Normal"
    /\ pc' = "done"
    /\ UNCHANGED <<sample_rate, pitch, post_gain, out_channel>>
    /\ UNCHANGED pureVars

\* the host takes the block and the status back; the locals of process are gone
HostTakesBlock ==
    /\ pc = "done"
    /\ buffer' = <<>>
    /\ in_buffer' = <<>> /\ saw' = <<>> /\ p_mono' = <<>> /\ p_curve' = <<>>
    /\ status' = "none"
    /\ pc' = "idle"
    /\ UNCHANGED <<sample_rate, pitch, post_gain, out_channel>>
    /\ UNCHANGED pureVars

NextProc ==
    Initialize \/ Reset \/ SetParams \/ HostGivesBlock \/ Process \/ HostTakesBlock

SpecProc == InitProc /\ [][NextProc]_vars

----------------------------------------------------------------------------
(* Claims about envelope_follower, under SpecEnv *)

\* the level the loop holds when it reads samples[i]
LevelBefore(i) == IF i = 1 THEN EnvStart ELSE curve[i - 1]

\* the f32 subtraction a - b of finite values is exact
ExactSub(a, b) == IsFinite(a) /\ IsFinite(b) /\ Round(a - b) = a - b

\* x lies between a and b, ends included
Between(x, a, b) == (FGe(x, a) /\ FGe(b, x)) \/ (FGe(x, b) /\ FGe(a, x))

\* the largest |s| among samples[1..i]
RECURSIVE MaxTarget(_)
MaxTarget(i) ==
    IF i = 1 THEN Target(samples[1])
    ELSE IF Target(samples[i]) > MaxTarget(i - 1) THEN Target(samples[i])
    ELSE MaxTarget(i - 1)

TimesNonNegative == attack_ms >= 0 /\ release_ms >= 0

\* C1 (as claimed, on finite values whose difference is exact in f32, so that
\* rounding plays no part): with no reset between two calls, the first output of
\* the second call continues from the last output of the first call: it is
\* last + coefficient * (|s0| - last).
C1_StateCarries ==
    (/\ pc = "returned" /\ prev_last # <<>> /\ curve # <<>>
     /\ ExactSub(Target(samples[1]), prev_last[1]))
    => curve[1] = EnvStep(prev_last[1], samples[1],
                          attack_coeff(attack_ms, rate_arg),
                          release_coeff(release_ms, rate_arg))

C8_InstantJump ==
    pc = "returned"
    => /\ attack_ms <= 0 =>
            \A i \in 1..Len(curve) :
                FGt(Target(samples[i]), LevelBefore(i)) => curve[i] = Target(samples[i])
       /\ release_ms <= 0 =>
            \A i \in 1..Len(curve) :
                ~FGt(Target(samples[i]), LevelBefore(i)) => curve[i] = Target(samples[i])
       /\ (attack_ms <= 0 /\ release_ms <= 0) =>
            \A i \in 1..Len(curve) : curve[i] = Target(samples[i])

\* C8 (amended): a time constant <= 0 means a coefficient of exactly 1, and the
\* emitted level is then exactly |s| whenever the level and |s| are finite and
\* the f32 subtraction |s| - level is exact (as it is on the first sample of a
\* call, where the level is 0).
C8_InstantJumpExact ==
    pc = "returned"
    => /\ attack_ms <= 0 =>
            /\ attack_coeff(attack_ms, rate_arg) = One
            /\ \A i \in 1..Len(curve) :
                 (/\ FGt(Target(samples[i]), LevelBefore(i))
                  /\ ExactSub(Target(samples[i]), LevelBefore(i)))
                 => curve[i] = Target(samples[i])
       /\ release_ms <= 0 =>
            /\ release_coeff(release_ms, rate_arg) = One
            /\ \A i \in 1..Len(curve) :
                 (/\ ~FGt(Target(samples[i]), LevelBefore(i))
                  /\ ExactSub(Target(samples[i]), LevelBefore(i)))
                 => curve[i] = Target(samples[i])
       /\ (attack_ms <= 0 /\ release_ms <= 0) =>
            \A i \in 1..Len(curve) :
                (i = 1 \/ ExactSub(Target(samples[i]), LevelBefore(i)))
                => curve[i] = Target(samples[i])

C8_Witness ==
    /\ pc = "returned" /\ attack_ms <= 0 /\ release_ms > 0 /\ rate_arg = 44100
    /\ Len(samples) = 2 /\ AllFinite(samples)
    /\ FGt(Target(samples[1]), 0) /\ FGt(Target(samples[2]), curve[1])
    /\ curve[1] = Target(samples[1]) /\ curve[2] = Target(samples[2])

----------------------------------------------------------------------------
(* Claims about apply_gain_curve, under SpecGain *)

\* the call has ended, one way or the other
GainCallEnded == pc \in {"returned", "panicked"}

\* C2: a call with samples and curve of different lengths always fails; it never
\* returns normally, and it leaves no truncated or padded result.
C2_MismatchPanics ==
    (GainCallEnded /\ Len(gain_in) # Len(curve))
    => pc = "panicked" /\ samples = gain_in

C2_Witness ==
    pc = "panicked" /\ Len(gain_in) = 1 /\ Len(curve) = 2

\* C3: for samples and curve of equal length L the call returns with samples of
\* length L and samples[i] = (its previous value) * curve[i] for every i; all-ones
\* input yields exactly the curve.
C3_ElementwiseProduct ==
    (GainCallEnded /\ Len(gain_in) = Len(curve))
    => /\ pc = "returned"
       /\ Len(samples) = Len(curve)
       /\ \A i \in 1..Len(curve) : samples[i] = FMul(gain_in[i], curve[i])
       /\ (\A i \in 1..Len(curve) : gain_in[i] = One) => samples = curve

C3_Witness ==
    /\ pc = "returned" /\ Len(curve) = 2
    /\ gain_in = <<One, One>> /\ curve = <<Half, One>> /\ samples = <<Half, One>>

----------------------------------------------------------------------------
(* Claims about SubrouRs::process, under SpecProc *)

\* process has run on a block that holds samples
ProcessedBlock == pc = "done" /\ NumSamples(in_buffer) > 0

AllZero(buf) == \A c \in 1..Len(buf) : \A i \in 1..Len(buf[c]) : buf[c][i] = 0

\* C4: with out_channel an existing 1-based channel k, process leaves channel k
\* holding the synthesized signal, with nothing of its previous content added,
\* and every other channel as it was.
C4_ReplacesChannel ==
    (ProcessedBlock /\ out_channel \in 1..Len(in_buffer))
    => /\ Len(buffer) = Len(in_buffer)
       /\ buffer[out_channel] = saw
       /\ \A c \in 1..Len(in_buffer) :
            c # out_channel => buffer[c] = in_buffer[c]

C4_Witness ==
    /\ ProcessedBlock /\ out_channel = 2 /\ NumSamples(in_buffer) = 2
    /\ in_buffer[1][2] # 0 /\ in_buffer[2][2] # 0
    /\ saw[2] # 0 /\ saw[2] # in_buffer[2][2]
    /\ buffer[2] = saw /\ buffer[1] = in_buffer[1]

\* C5: with out_channel = 0, process adds the one synthesized signal to every
\* channel: out[c][i] = in[c][i] + signal[i]; channels that were identical stay
\* identical.
C5_AddsToAll ==
    (ProcessedBlock /\ out_channel = 0)
    => /\ Len(buffer) = Len(in_buffer)
       /\ \A c \in 1..Len(in_buffer) :
            /\ Len(buffer[c]) = Len(in_buffer[c])
            /\ \A i \in 1..Len(in_buffer[c]) :
                 buffer[c][i] = FAdd(in_buffer[c][i], saw[i])
       /\ \A c, d \in 1..Len(in_buffer) :
            in_buffer[c] = in_buffer[d] => buffer[c] = buffer[d]

C5_Witness ==
    /\ ProcessedBlock /\ out_channel = 0 /\ NumSamples(in_buffer) = 2
    /\ in_buffer[1] = in_buffer[2] /\ in_buffer[1][2] # 0
    /\ saw[2] # 0
    /\ buffer[1] = buffer[2] /\ buffer[1][2] # in_buffer[1][2]

\* C6: with out_channel a 1-based index above the number of channels, process
\* changes no sample of any channel and returns the normal status.
C6_OutOfRangeNoOp ==
    (pc = "done" /\ out_channel > Len(in_buffer))
    => buffer = in_buffer /\ status = "Normal"

C6_Witness ==
    /\ ProcessedBlock /\ out_channel = NumChannels + 1 /\ NumSamples(in_buffer) = 2
    /\ in_buffer[2][2] # 0 /\ saw[2] # 0
    /\ buffer = in_buffer /\ status = "Normal"

\* C9: on a block whose channels are all zero, with out_channel = 0, the mono
\* signal and the envelope curve are all zero and every sample of every channel
\* is exactly 0 after the call.
C9_Silence ==
    (ProcessedBlock /\ out_channel = 0 /\ AllZero(in_buffer))
    => /\ \A i \in 1..Len(p_mono) : p_mono[i] = 0
       /\ \A i \in 1..Len(p_curve) : p_curve[i] = 0
       /\ Len(p_mono) = NumSamples(in_buffer)
       /\ Len(p_curve) = NumSamples(in_buffer)
       /\ Len(buffer) = Len(in_buffer)
       /\ \A c \in 1..Len(buffer) : Len(buffer[c]) = NumSamples(in_buffer)
       /\ AllZero(buffer)

C9_Witness ==
    /\ ProcessedBlock /\ out_channel = 0 /\ NumSamples(in_buffer) = 2
    /\ AllZero(in_buffer) /\ post_gain = One /\ sample_rate = 44100
    /\ AllZero(buffer) /\ status = "Normal"

====
